---- MODULE Spec2Model ----
(***************************************************************************)
(* monitor-switch (src/main.rs): a single-threaded command-line tool that  *)
(* enumerates DDC/CI displays, filters them with a Query built from the    *)
(* command line, and sets or toggles the Input-Source VCP feature (0x60)   *)
(* on every matched display.  DisplaySleep collects the displays that were *)
(* processed; its Drop calls sleep() on each of them when main returns.    *)
(*                                                                         *)
(* The display-control library (ddc_hi) is the environment: the outcome of *)
(* update_capabilities, get_vcp_feature and set_vcp_feature is chosen      *)
(* nondeterministically at the call.                                       *)
(***************************************************************************)
EXTENDS Integers, Sequences, FiniteSets, TLC

\* ------------------------------------------------------------------ bounds
NumDisplays == 3      \* number of displays Display::enumerate() returns

\* --------------------------------------------------------------- constants
INPUT_SELECT == 96    \* 0x60
U16 == 2^16           \* VCP values are u16

None == "<none>"      \* Option::None

\* enum InputSource, #[repr(u8)], with its discriminants
InputSource ==
    [ Vga1 |-> 1, Vga2 |-> 2, Dvi1 |-> 3, Dvi2 |-> 4,
      CompositeVideo1 |-> 5, CompositeVideo2 |-> 6,
      SVideo1 |-> 7, SVideo2 |-> 8,
      Tuner1 |-> 9, Tuner2 |-> 10, Tuner3 |-> 11,
      ComponentVideo1 |-> 12, ComponentVideo2 |-> 13, ComponentVideo3 |-> 14,
      DisplayPort1 |-> 15, DisplayPort2 |-> 16,
      Hdmi1 |-> 17, Hdmi2 |-> 18 ]

InputSourceVariantNames == DOMAIN InputSource

\* `input_source as u16`
AsU16(src) == InputSource[src] % U16

\* InputSource::try_from(u16): the variant with that discriminant, or an error
TryFrom(v) ==
    IF \E n \in InputSourceVariantNames : InputSource[n] = v
    THEN CHOOSE n \in InputSourceVariantNames : InputSource[n] = v
    ELSE None

\* InputSource::from_str: exact match against the variant names
FromStr(s) == IF s \in InputSourceVariantNames THEN s ELSE None

\* ------------------------------------------------------------------ Query
\* ddc_hi::Query values as main builds them: tagged values, And/Or hold a vec
QAny == [tag |-> "Any", v |-> <<>>]
QBackend(b) == [tag |-> "Backend", v |-> <<b>>]
QId(s) == [tag |-> "Id", v |-> <<s>>]
QManufacturerId(s) == [tag |-> "ManufacturerId", v |-> <<s>>]
QModelName(s) == [tag |-> "ModelName", v |-> <<s>>]
QSerialNumber(s) == [tag |-> "SerialNumber", v |-> <<s>>]
QAnd(qs) == [tag |-> "And", v |-> qs]
QOr(qs) == [tag |-> "Or", v |-> qs]

\* query.matches(&d.info)
RECURSIVE Matches(_, _)
Matches(q, i) ==
    CASE q.tag = "Any" -> TRUE
      [] q.tag = "Backend" -> i.backend = q.v[1]
      [] q.tag = "Id" -> i.id = q.v[1]
      [] q.tag = "ManufacturerId" -> i.mfg # None /\ i.mfg = q.v[1]
      [] q.tag = "ModelName" -> i.model # None /\ i.model = q.v[1]
      [] q.tag = "SerialNumber" -> i.serial # None /\ i.serial = q.v[1]
      [] q.tag = "And" -> \A k \in 1..Len(q.v) : Matches(q.v[k], i)
      [] q.tag = "Or" -> \E k \in 1..Len(q.v) : Matches(q.v[k], i)

\* a query construction that forgets the --sn flag
BuildQueryNoSerial(a) ==
    LET q0 == QAny
        q1 == IF a.backend # <<>>
              THEN QAnd(<<q0, QOr([k \in 1..Len(a.backend) |-> QBackend(a.backend[k])])>>)
              ELSE q0
        q2 == IF a.id # None THEN QAnd(<<q1, QId(a.id)>>) ELSE q1
        q3 == IF a.mfg # None THEN QAnd(<<q2, QManufacturerId(a.mfg)>>) ELSE q2
        q4 == IF a.model # None THEN QAnd(<<q3, QModelName(a.model)>>) ELSE q3
    IN  q4

\* main, query construction: each present flag wraps the query in an And
BuildQuery(a) ==
    LET q0 == QAny
        q1 == IF a.backend # <<>>
              THEN QAnd(<<q0, QOr([k \in 1..Len(a.backend) |-> QBackend(a.backend[k])])>>)
              ELSE q0
        q2 == IF a.id # None THEN QAnd(<<q1, QId(a.id)>>) ELSE q1
        q3 == IF a.mfg # None THEN QAnd(<<q2, QManufacturerId(a.mfg)>>) ELSE q2
        q4 == IF a.model # None THEN QAnd(<<q3, QModelName(a.model)>>) ELSE q3
        q5 == IF a.serial # None THEN QAnd(<<q4, QSerialNumber(a.serial)>>) ELSE q4
    IN  q5

\* needs_caps set by every filter flag
NeedsCapsAnyFlag(a) ==
    a.backend # <<>> \/ a.id # None \/ a.mfg # None \/ a.model # None \/ a.serial # None

\* main: needs_caps is set only in the model arm
NeedsCaps(a) == a.model # None

\* ------------------------------------------------------------------ state
VARIABLES
    args,      \* clap matches: cmd, INPUT / INPUT1 / INPUT2, the filter flags
    info,      \* info[d]: DisplayInfo of the d-th enumerated display
    enumerated,\* what Display::enumerate() returns, in its order
    cur,       \* cur[d]: Input-Source value the device holds, Unknown until observed
    pc,        \* position in main: "locate", "loop", "drop", "exit"
    idx,       \* next element of the iterator being consumed (1-based)
    list,      \* result of displays(): matched displays in enumeration order
    target,    \* toggle's Option<InputSource>
    sleep,     \* DisplaySleep.0
    result,    \* main's Result: "running", "Ok" or the error
    exitCode,  \* process exit status, Running until the process ended
    log,       \* calls issued to the library in this run, in order
    run,       \* "first" or "second" invocation of the same command line
    past       \* log of the first invocation, kept while the second runs

vars == <<args, enumerated, info, cur, pc, idx, list, target, sleep, result,
          exitCode, log, run, past>>

Displays == 1..NumDisplays

\* values a device can answer to a read of 0x60: two the toggle commands use,
\* one other valid code, and codes outside 0x01..0x12 (0, 0x13, and 0x0111,
\* a valid low byte under a non-zero high byte)
DeviceValues == {1, 15, 17, 0, 19, 273}

Unknown == 0 - 1      \* cur[d] before the device was read or written
Running == 0 - 1      \* exitCode while the process runs

\* model names a capability string can report (or none)
CapModels == {None, "U2720Q"}

\* a call issued to the display-control library
\* (by: the function of main.rs that issues it)
Call(by, op, d, code, val, ok, eff) ==
    [by |-> by, op |-> op, d |-> d, code |-> code, val |-> val, ok |-> ok,
     eff |-> eff]

\* ---------------------------------------------------------- library model
\* Display::update_capabilities on success: the MCCS feature table is
\* rebuilt from the capability string (Input Source present or not) and the
\* model name the EDID did not give is filled in
Refreshed(i, has60, model) ==
    [i EXCEPT !.has60 = has60,
              !.model = IF i.model = None THEN model ELSE i.model]

\* display.info.mccs_database.get(code): Some(feature) as <<feature.code>>
MccsGet(i, code) == IF code = INPUT_SELECT /\ i.has60 THEN <<code>> ELSE <<>>

\* what the device answers to get_vcp_feature: the value it holds
Answers(d) == IF cur[d] = Unknown THEN DeviceValues ELSE {cur[d]}

\* the outcomes the library can choose from at a call; one outcome where
\* the call is not made
Outcomes(called) == IF called THEN BOOLEAN ELSE {FALSE}
Reports(i) == IF i.model = None THEN CapModels ELSE {None}

\* -------------------------------------------------------------- functions
\* fn set_input_source: the calls it issues and its Result; ok and eff are
\* the library's outcome (eff: the device switched, whatever was reported)
set_input_source(d, i, input_source, ok, eff) ==
    LET feature == MccsGet(i, INPUT_SELECT)
    IN  IF feature # <<>>
        THEN [calls |-> <<Call("main", "set_vcp_feature", d, feature[1],
                               AsU16(input_source), ok, eff)>>,
              res |-> IF ok THEN "Ok" ELSE "Err(set_vcp_feature)"]
        ELSE [calls |-> <<>>, res |-> "Err(feature)"]

\* fn get_input_source: ok and v are the library's outcome of the read
get_input_source(d, i, ok, v) ==
    LET feature == MccsGet(i, INPUT_SELECT)
    IN  IF feature # <<>>
        THEN [calls |-> <<Call("main", "get_vcp_feature", d, feature[1], v % U16, ok, FALSE)>>,
              res |-> IF ~ok THEN "Err(get_vcp_feature)"
                      ELSE IF TryFrom(v % U16) = None THEN "Err(try_from)"
                      ELSE TryFrom(v % U16)]
        ELSE [calls |-> <<>>, res |-> "Err(feature)"]

IsErr(r) == r \in {"Err(update_capabilities)", "Err(set_vcp_feature)",
                   "Err(get_vcp_feature)", "Err(try_from)", "Err(feature)",
                   "Err(toggle)"}

\* the device after the calls: an effective write changes the held value,
\* a successful read reveals it
After(c, calls) ==
    IF calls = <<>> THEN c
    ELSE LET k == calls[Len(calls)]
         IN  IF k.op = "set_vcp_feature" /\ k.eff THEN [c EXCEPT ![k.d] = k.val]
             ELSE IF k.op = "get_vcp_feature" /\ k.ok THEN [c EXCEPT ![k.d] = k.val]
             ELSE c

\* ---------------------------------------------------------------- actions
\* an error that is recorded while the loop goes on
FailDeferred(err, calls) ==
    /\ log' = log \o calls
    /\ result' = err
    /\ pc' = pc

\* main returns through `?` or bail!: the loop is left, the locals drop
Fail(err, calls) ==
    /\ log' = log \o calls
    /\ result' = err
    /\ pc' = "drop"

\* fn displays: the lazy map/filter/collect pulls one enumerated display,
\* refreshes it if needs_caps and the backend is WinApi, tests the query;
\* the first Err ends the collect
Locate ==
    /\ pc = "locate"
    /\ LET d == idx
           refresh == NeedsCaps(args) /\ info[d].backend = "WinApi"
           Keep(i) ==
               /\ list' = IF Matches(BuildQuery(args), i) THEN Append(list, d) ELSE list
               /\ idx' = IF idx = NumDisplays THEN 1 ELSE idx + 1
               /\ pc' = IF idx = NumDisplays THEN "loop" ELSE "locate"
               /\ result' = result
       IN  \/ /\ refresh
              /\ Fail("Err(update_capabilities)",
                      <<Call("displays", "update_capabilities", d, 0, 0, FALSE, FALSE)>>)
              /\ UNCHANGED <<info, list, idx>>
           \/ /\ refresh
              /\ \E has60 \in BOOLEAN, m \in Reports(info[d]) :
                    /\ info' = [info EXCEPT ![d] = Refreshed(@, has60, m)]
                    /\ Keep(info'[d])
              /\ log' = Append(log, Call("displays", "update_capabilities", d, 0, 0, TRUE,
                                       FALSE))
           \/ /\ ~refresh
              /\ Keep(info[d])
              /\ UNCHANGED <<info, log>>
    /\ UNCHANGED <<args, enumerated, cur, target, sleep, exitCode, run, past>>

\* the error of set_input_source propagated with `?` instead of being logged
Propagate(res) == res

\* main, both arms: `if let Err(e) = set_input_source(..) { warn!(..) }`:
\* whatever set_input_source returns, the error is logged and dropped
Swallow(res) == "Ok"

\* main, set arm: one iteration of the for loop
SetIter ==
    /\ pc = "loop" /\ args.cmd = "set" /\ idx <= Len(list)
    /\ LET d == list[idx]
           input_source == FromStr(args.input)
           up(ok) == <<Call("main", "update_capabilities", d, 0, 0, ok, FALSE)>>
       IN  \/ /\ Fail("Err(update_capabilities)", up(FALSE))
              /\ UNCHANGED <<info, cur, idx, sleep>>
           \/ \E has60 \in BOOLEAN, m \in Reports(info[d]) :
              \E ok \in Outcomes(has60), eff \in Outcomes(has60) :
                 LET i == Refreshed(info[d], has60, m)
                     r == set_input_source(d, i, input_source, ok, eff)
                 IN  /\ info' = [info EXCEPT ![d] = i]
                     /\ cur' = After(cur, r.calls)
                     /\ IF IsErr(Swallow(r.res))
                        THEN /\ Fail(Swallow(r.res), up(TRUE) \o r.calls)
                             /\ UNCHANGED <<idx, sleep>>
                        ELSE /\ log' = log \o up(TRUE) \o r.calls
                             /\ sleep' = Append(sleep, d)
                             /\ idx' = idx + 1
                             /\ UNCHANGED <<pc, result>>
    /\ UNCHANGED <<args, enumerated, list, target, exitCode, run, past>>

\* a toggle that can only ever go to the second candidate
DecideOneWay(current, input_source_1, input_source_2) ==
    IF current = input_source_1 \/ current = input_source_2 THEN input_source_2
    ELSE "Err(toggle)"

\* a toggle that falls back to the first candidate instead of bailing out
DecideFallback(current, input_source_1, input_source_2) ==
    IF current = input_source_1 THEN input_source_2 ELSE input_source_1

\* main, toggle arm: the target from the current value and the candidates
Decide(current, input_source_1, input_source_2) ==
    IF current = input_source_1 THEN input_source_2
    ELSE IF current = input_source_2 THEN input_source_1
    ELSE "Err(toggle)"

\* a toggle that decides the direction anew for every display
NeedsReadAlways(t) == TRUE

\* main, toggle arm: `if target.is_none()`
NeedsRead(t) == t = None

\* main, toggle arm: one iteration of the for loop
ToggleIter ==
    /\ pc = "loop" /\ args.cmd = "toggle" /\ idx <= Len(list)
    /\ LET d == list[idx]
           input_source_1 == FromStr(args.input1)
           input_source_2 == FromStr(args.input2)
           up(ok) == <<Call("main", "update_capabilities", d, 0, 0, ok, FALSE)>>
       IN  \/ /\ Fail("Err(update_capabilities)", up(FALSE))
              /\ UNCHANGED <<info, cur, idx, sleep, target>>
           \/ \E has60 \in BOOLEAN, m \in Reports(info[d]) :
              \E rok \in Outcomes(has60 /\ NeedsRead(target)) :
              \E v \in IF rok THEN Answers(d) ELSE {0} :
              \E ok \in Outcomes(has60), eff \in Outcomes(has60) :
                 LET i == Refreshed(info[d], has60, m)
                     g == IF NeedsRead(target) THEN get_input_source(d, i, rok, v)
                          ELSE [calls |-> <<>>, res |-> target]
                     t == IF ~NeedsRead(target) THEN target
                          ELSE IF IsErr(g.res) THEN g.res
                          ELSE Decide(g.res, input_source_1, input_source_2)
                     r == set_input_source(d, i, t, ok, eff)
                 IN  /\ info' = [info EXCEPT ![d] = i]
                     /\ IF IsErr(t)
                        THEN /\ Fail(t, up(TRUE) \o g.calls)
                             /\ cur' = After(cur, g.calls)
                             /\ UNCHANGED <<idx, sleep, target>>
                        ELSE /\ target' = t
                             /\ cur' = After(After(cur, g.calls), r.calls)
                             /\ IF IsErr(Swallow(r.res))
                                THEN /\ Fail(Swallow(r.res),
                                             up(TRUE) \o g.calls \o r.calls)
                                     /\ UNCHANGED <<idx, sleep>>
                                ELSE /\ log' = log \o up(TRUE) \o g.calls \o r.calls
                                     /\ sleep' = Append(sleep, d)
                                     /\ idx' = idx + 1
                                     /\ UNCHANGED <<pc, result>>
    /\ UNCHANGED <<args, enumerated, list, exitCode, run, past>>

\* main: the for loop is exhausted, Ok(()) is returned
LoopEnd ==
    /\ pc = "loop" /\ idx > Len(list)
    /\ result' = "Ok"
    /\ pc' = "drop"
    /\ UNCHANGED <<args, enumerated, info, cur, idx, list, target, sleep,
                   exitCode, log, run, past>>

\* a cleanup that runs only when main reaches its end: an early return skips it
DropOnSuccess ==
    /\ pc = "drop"
    /\ log' = IF result = "Ok"
              THEN log \o [k \in 1..Len(sleep) |->
                              Call("drop", "sleep", sleep[k], 0, 0, TRUE, FALSE)]
              ELSE log
    /\ pc' = "exit"
    /\ exitCode' = IF result = "Ok" THEN 0 ELSE 1
    /\ UNCHANGED <<args, enumerated, info, cur, idx, list, target, sleep, result,
                   run, past>>

\* main returns: `sleep` goes out of scope, Drop for DisplaySleep calls
\* sleep() on each handle it holds, in the order they were added; then the
\* process ends: Ok(()) exits 0, an Err from main exits non-zero
Drop ==
    /\ pc = "drop"
    /\ log' = log \o [k \in 1..Len(sleep) |->
                         Call("drop", "sleep", sleep[k], 0, 0, TRUE, FALSE)]
    /\ pc' = "exit"
    /\ exitCode' = IF result = "Ok" THEN 0 ELSE 1
    /\ UNCHANGED <<args, enumerated, info, cur, idx, list, target, sleep, result,
                   run, past>>

\* the same command line is run a second time: a new process, the same devices
NewRun ==
    /\ pc = "exit" /\ run = "first"
    /\ run' = "second"
    /\ past' = log
    /\ info' = enumerated
    /\ pc' = "locate" /\ idx' = 1 /\ list' = <<>> /\ target' = None
    /\ sleep' = <<>> /\ result' = "running" /\ exitCode' = Running
    /\ log' = <<>>
    /\ UNCHANGED <<args, enumerated, cur>>

\* ------------------------------------------------------------ initial states
\* DisplayInfo as Display::enumerate() gives it: the feature table is empty
\* until update_capabilities; WinApi reports no EDID fields
Info(backend, id, mfg, model, serial) ==
    [backend |-> backend, id |-> id, mfg |-> mfg, model |-> model,
     serial |-> serial, has60 |-> FALSE]

\* command lines: the filter flags (None, or no --backend value: flag absent)
\* and the subcommand
Flags(backend, id, mfg, model, serial) ==
    [backend |-> backend, id |-> id, mfg |-> mfg, model |-> model, serial |-> serial]

NoFlags == Flags(<<>>, None, None, None, None)

Set(f, input) ==
    [cmd |-> "set", input |-> input, input1 |-> None, input2 |-> None,
     backend |-> f.backend, id |-> f.id, mfg |-> f.mfg, model |-> f.model,
     serial |-> f.serial]

Toggle(f, input1, input2) ==
    [cmd |-> "toggle", input |-> None, input1 |-> input1, input2 |-> input2,
     backend |-> f.backend, id |-> f.id, mfg |-> f.mfg, model |-> f.model,
     serial |-> f.serial]

\* the state when main starts, for a set of command lines and of enumerations
Start(cmdlines, enums) ==
    /\ args \in cmdlines
    /\ enumerated \in enums
    /\ info = enumerated
    /\ cur = [d \in Displays |-> Unknown]
    /\ pc = "locate" /\ idx = 1 /\ list = <<>> /\ target = None
    /\ sleep = <<>> /\ result = "running" /\ exitCode = Running
    /\ log = <<>> /\ run = "first" /\ past = <<>>

\* monitors: WinApi gives only the backend id until the capabilities are read
WinApi1 == Info("WinApi", "1", None, None, None)
Acme1 == Info("I2cDevice", "1", "ACME", "U2720Q", "SN1")
Acme2 == Info("I2cDevice", "2", "ACME", "P2415Q", "SN2")
Gsm3 == Info("I2cDevice", "3", "GSM", "U2720Q", None)

\* (a) every enumeration of two kinds of monitor, few filters
Monitors == {WinApi1, Acme1}

Filters ==
    { NoFlags,
      Flags(<<>>, None, None, "U2720Q", None),
      Flags(<<>>, None, "ACME", "U2720Q", None) }

CmdLines ==
    { Set(f, "Hdmi1") : f \in Filters }
      \cup { Toggle(f, "DisplayPort1", "Hdmi1") : f \in Filters }
      \cup { Toggle(NoFlags, "Hdmi1", "Hdmi1") }

\* (b) every filter flag, alone and combined, on rotations of four monitors
Kinds == <<WinApi1, Acme1, Acme2, Gsm3>>

Rotations ==
    { [d \in Displays |-> Kinds[((d + r) % Len(Kinds)) + 1]] : r \in 1..Len(Kinds) }

FilterFlags ==
    { Flags(<<"I2cDevice">>, None, None, None, None),
      Flags(<<"Nvapi", "WinApi">>, None, None, None, None),
      Flags(<<>>, "1", None, None, None),
      Flags(<<>>, None, "ACME", None, None),
      Flags(<<>>, None, None, "U2720Q", None),
      Flags(<<>>, None, None, None, "SN1"),
      Flags(<<"I2cDevice">>, "1", None, None, None),
      Flags(<<>>, None, "ACME", "U2720Q", None),
      Flags(<<"WinApi", "I2cDevice">>, None, None, "U2720Q", None),
      Flags(<<"I2cDevice">>, "1", "ACME", "U2720Q", "SN1") }

FilterCmdLines == { Set(f, "Hdmi1") : f \in FilterFlags \cup {NoFlags} }

Init ==
    \/ Start(CmdLines, [Displays -> Monitors])
    \/ Start(FilterCmdLines, Rotations)

Next == Locate \/ SetIter \/ ToggleIter \/ LoopEnd \/ Drop

Spec == Init /\ [][Next]_vars

\* SpecTwice: the same toggle command line run twice on the same devices;
\* the --id filter selects the monitors with backend id "1"
TwiceCmdLines ==
    { Toggle(Flags(<<>>, "1", None, None, None), "DisplayPort1", "Hdmi1"),
      Toggle(Flags(<<>>, "1", None, None, None), "Hdmi1", "DisplayPort1"),
      Toggle(Flags(<<>>, "1", None, "U2720Q", None), "DisplayPort1", "Hdmi1"),
      Toggle(Flags(<<>>, "1", None, None, None), "Hdmi1", "Hdmi1") }

TwiceEnums ==
    { [d \in Displays |-> IF d = k THEN m ELSE Acme2] :
        k \in Displays, m \in {WinApi1, Acme1} }

InitTwice == Start(TwiceCmdLines, TwiceEnums)

NextTwice == Locate \/ ToggleIter \/ LoopEnd \/ Drop \/ NewRun

SpecTwice == InitTwice /\ [][NextTwice]_vars

\* ------------------------------------------------------------------ claims
Range(s) == {s[k] : k \in DOMAIN s}
Calls(op) == {k \in DOMAIN log : log[k].op = op}
CallsOn(op, d) == {k \in DOMAIN log : log[k].op = op /\ log[k].d = d}
IsWork(c) == c.op # "sleep"
Work == SelectSeq(log, IsWork)
LastWork == Work[Len(Work)]
Codes == {InputSource[n] : n \in InputSourceVariantNames}

\* C1: on every exit path of main each display added to DisplaySleep gets
\* exactly one sleep() call and a display never added gets none; sleep() is
\* called only when main has returned, and no capability refresh, VCP read
\* or VCP write follows the first sleep() call.
C1_TeardownOnEveryExit ==
    /\ \A j, k \in DOMAIN log : j < k /\ log[j].op = "sleep" => log[k].op = "sleep"
    /\ pc # "exit" => Calls("sleep") = {}
    /\ pc = "exit" =>
          \A d \in Displays :
             Cardinality(CallsOn("sleep", d)) = IF d \in Range(sleep) THEN 1 ELSE 0

\* an error return out of the loop with some displays added and some not
C1_Witness ==
    /\ pc = "exit" /\ IsErr(result)
    /\ Len(sleep) >= 1 /\ Len(sleep) < Len(list)
    /\ Calls("sleep") # {}

\* C2 (as claimed): in `set`, once a matched display was refreshed in the
\* loop and its feature table lacks 0x60, main has failed with "feature not
\* accessible", exits non-zero, and no later matched display is refreshed or
\* written.
C2_SetAbortsOnMissingFeature ==
    args.cmd = "set" =>
       \A k \in DOMAIN log :
          (/\ log[k].by = "main" /\ log[k].op = "update_capabilities" /\ log[k].ok
           /\ ~info[log[k].d].has60)
          => /\ result = "Err(feature)"
             /\ pc \in {"drop", "exit"}
             /\ pc = "exit" => exitCode # 0
             /\ \A j \in DOMAIN log : j > k => log[j].op = "sleep"

\* C3: a failing set_vcp_feature never becomes main's error; right after it
\* main has not failed (the loop goes on or has ended normally) and the
\* failing display is registered for
\* teardown; the loop's calls go through the matched displays in enumeration
\* order; and when main returns Ok the exit code is 0 and every matched
\* display after the failing one was refreshed once and, where its table has
\* the feature, written once.
C3_WriteFailureTolerated ==
    /\ result # "Err(set_vcp_feature)"
    /\ \A a, b \in DOMAIN log :
          a < b /\ log[a].by = "main" /\ log[b].by = "main" => log[a].d <= log[b].d
    /\ \A k \in Calls("set_vcp_feature") :
          ~log[k].ok =>
             /\ log[k].d \in Range(sleep)
             /\ k = Len(log) => ~IsErr(result) /\ pc \in {"loop", "drop"}
             /\ pc = "exit" /\ result = "Ok" =>
                   /\ exitCode = 0
                   /\ \A j \in DOMAIN list :
                         list[j] > log[k].d =>
                            /\ Cardinality({r \in CallsOn("update_capabilities", list[j]) :
                                              r > k /\ log[r].ok}) = 1
                            /\ info[list[j]].has60 =>
                                  Cardinality({w \in CallsOn("set_vcp_feature", list[j]) :
                                                 w > k}) = 1

\* a run that ends Ok although a write failed, with a later display written
C3_Witness ==
    /\ pc = "exit" /\ result = "Ok" /\ exitCode = 0
    /\ \E k, w \in Calls("set_vcp_feature") :
          ~log[k].ok /\ w > k /\ log[w].d # log[k].d

\* C4: in `toggle`, when the value read is a valid code that is neither
\* INPUT1 nor INPUT2, main fails with the toggle error, exits non-zero, and
\* no set_vcp_feature call was issued on any display in that run.
C4_AmbiguousToggleMutatesNothing ==
    /\ (args.cmd = "toggle" /\
        \E k \in Calls("get_vcp_feature") :
           /\ log[k].ok /\ log[k].val \in Codes
           /\ log[k].val \notin {InputSource[args.input1], InputSource[args.input2]})
       => result = "Err(toggle)"
    /\ result = "Err(toggle)" =>
          /\ Calls("set_vcp_feature") = {}
          /\ pc \in {"drop", "exit"}
          /\ pc = "exit" => exitCode # 0

\* the toggle error with several displays matched
C4_Witness ==
    /\ pc = "exit" /\ result = "Err(toggle)" /\ Len(list) >= 2
    /\ args.input1 # args.input2

\* the candidates of the toggle command as codes
Code1 == InputSource[args.input1]
Code2 == InputSource[args.input2]

\* the successful read and the effective write of a log, if any
ReadsOk(l) == {k \in DOMAIN l : l[k].op = "get_vcp_feature" /\ l[k].ok}
WritesEff(l, d) == {k \in DOMAIN l : l[k].op = "set_vcp_feature" /\ l[k].d = d /\ l[k].eff}

\* C5: in `toggle`, when the first matched display reports INPUT1 the target
\* is INPUT2, and when it reports INPUT2 the target is INPUT1; the value a
\* write that took effect left on a display is what the next run reads from
\* it; and when the first run read INPUT1 and both runs' writes to that
\* display took effect, the display holds INPUT1 again after the second run.
C5_ToggleTwiceReturns ==
    /\ \A k \in ReadsOk(log) :
          target # None =>
             /\ log[k].val = Code1 => target = args.input2
             /\ log[k].val = Code2 => target = args.input1
    /\ \A k \in ReadsOk(log) :
          \A w \in WritesEff(log, log[k].d) : w > k => cur[log[k].d] = log[w].val
    /\ run = "second" =>
          \A k \in ReadsOk(log) :
             \A w \in WritesEff(past, log[k].d) : log[k].val = past[w].val
    /\ run = "second" =>
          \A k \in ReadsOk(past) :
             (/\ past[k].val = Code1
              /\ WritesEff(past, past[k].d) # {}
              /\ WritesEff(log, past[k].d) # {}
              /\ \E r \in ReadsOk(log) : log[r].d = past[k].d)
             => cur[past[k].d] = Code1

\* two toggles between different inputs, both effective on the same display
C5_Witness ==
    /\ run = "second" /\ pc = "exit" /\ args.input1 # args.input2
    /\ \E k \in ReadsOk(past) :
          /\ past[k].val = Code1
          /\ \E w \in WritesEff(past, past[k].d) : past[w].val = Code2
          /\ \E r \in ReadsOk(log) : log[r].d = past[k].d /\ log[r].val = Code2
          /\ WritesEff(log, past[k].d) # {}
          /\ cur[past[k].d] = Code1

\* every filter flag given on the command line matches the display's info
AllFlagsMatch(a, i) ==
    /\ a.backend # <<>> => i.backend \in Range(a.backend)
    /\ a.id # None => i.id = a.id
    /\ a.mfg # None => i.mfg = a.mfg
    /\ a.model # None => i.model = a.model
    /\ a.serial # None => i.serial = a.serial

NoFilter(a) ==
    a.backend = <<>> /\ a.id = None /\ a.mfg = None /\ a.model = None /\ a.serial = None

\* C6: in `set`, every write goes to a display all of whose given filters
\* match, to feature code 0x60, with the code of the requested input source
\* (in 0x01..0x12; 0x11 for Hdmi1), at most once per display; with no filter
\* every enumerated display is in the match list, and when main returns Ok
\* every matched display whose table has the feature was written.
C6_SetWritesOnlyMatched ==
    args.cmd = "set" =>
       /\ \A k \in Calls("set_vcp_feature") :
             /\ AllFlagsMatch(args, info[log[k].d])
             /\ log[k].d \in Range(list)
             /\ log[k].code = 96
             /\ log[k].val = InputSource[args.input]
             /\ log[k].val \in 1..18
             /\ args.input = "Hdmi1" => log[k].val = 17
             /\ Cardinality(CallsOn("set_vcp_feature", log[k].d)) = 1
       /\ NoFilter(args) /\ pc # "locate" => list = [d \in Displays |-> d]
       /\ pc = "exit" /\ result = "Ok" =>
             \A d \in Range(list) :
                info[d].has60 => CallsOn("set_vcp_feature", d) # {}

\* the spec's example: --mfg ACME --model U2720Q set Hdmi1, one display
\* written and another enumerated display left alone
C6_Witness ==
    /\ args.cmd = "set" /\ args.mfg = "ACME" /\ args.model = "U2720Q"
    /\ pc = "exit"
    /\ \E d, e \in Displays :
          /\ CallsOn("set_vcp_feature", d) # {}
          /\ ~AllFlagsMatch(args, info[e])
          /\ CallsOn("set_vcp_feature", e) = {}

\* the calls that make main fail
Fatal(c) ==
    \/ c.op = "update_capabilities" /\ ~c.ok
    \/ /\ c.op = "get_vcp_feature"
       /\ \/ ~c.ok
          \/ c.val \notin Codes
          \/ c.val \notin {Code1, Code2}

\* C7: once main has failed it is past its loop and exits non-zero, and the
\* call that failed is the last capability refresh, VCP read or VCP write of
\* the run; conversely a failed refresh, a failed read, a code outside
\* 0x01..0x12 and a code that is neither candidate are each the last such
\* call and make main fail, and so does the refresh of toggle's first
\* display when its table lacks the feature.
C7_FatalErrorAbortsImmediately ==
    /\ IsErr(result) =>
          /\ pc \in {"drop", "exit"}
          /\ pc = "exit" => exitCode # 0
          /\ Work # <<>>
          /\ CASE result = "Err(update_capabilities)" ->
                     LastWork.op = "update_capabilities" /\ ~LastWork.ok
               [] result = "Err(get_vcp_feature)" ->
                     LastWork.op = "get_vcp_feature" /\ ~LastWork.ok
               [] result = "Err(try_from)" ->
                     /\ LastWork.op = "get_vcp_feature" /\ LastWork.ok
                     /\ LastWork.val \notin 1..18
               [] result = "Err(toggle)" ->
                     /\ LastWork.op = "get_vcp_feature" /\ LastWork.ok
                     /\ LastWork.val \in 1..18
                     /\ LastWork.val \notin {Code1, Code2}
               [] result = "Err(feature)" ->
                     /\ LastWork.op = "update_capabilities" /\ LastWork.ok
                     /\ LastWork.by = "main" /\ ~info[LastWork.d].has60
               [] OTHER -> FALSE
    /\ \A k \in DOMAIN Work :
          Fatal(Work[k]) => k = Len(Work) /\ IsErr(result)
    /\ \A k \in DOMAIN Work :
          (/\ args.cmd = "toggle" /\ Work[k].by = "main"
           /\ Work[k].op = "update_capabilities" /\ Work[k].ok
           /\ Work[k].d = list[1] /\ ~info[list[1]].has60)
          => k = Len(Work) /\ result = "Err(feature)"

\* a failure with matched or enumerated displays still to come
C7_Witness ==
    /\ pc = "exit" /\ exitCode = 1 /\ Work # <<>>
    /\ \/ LastWork.by = "displays" /\ ~LastWork.ok /\ LastWork.d < NumDisplays
       \/ /\ result \in {"Err(try_from)", "Err(get_vcp_feature)", "Err(feature)"}
          /\ Len(list) >= 2

\* C8 (as claimed): when the loop fails at the k-th matched display, the
\* matched displays 1..k each get exactly one sleep() call and those after
\* k get none.
C8_TeardownThroughFailingDisplay ==
    (pc = "exit" /\ IsErr(result) /\ Work # <<>> /\ LastWork.by = "main") =>
       \A j \in DOMAIN list :
          Cardinality(CallsOn("sleep", list[j])) = IF j <= idx THEN 1 ELSE 0

\* C9: in `toggle`, get_vcp_feature is called at most once in a run, on the
\* first matched display; every write carries the one target, which is the
\* candidate other than the one that read returned; the writes go through
\* the matched displays in enumeration order, at most one per display.
C9_ToggleTargetDecidedOnce ==
    args.cmd = "toggle" =>
       /\ Cardinality(Calls("get_vcp_feature")) <= 1
       /\ \A k \in Calls("get_vcp_feature") : list # <<>> /\ log[k].d = list[1]
       /\ \A w \in Calls("set_vcp_feature") :
             /\ target # None
             /\ log[w].val = InputSource[target]
             /\ \E k \in ReadsOk(log) :
                   /\ k < w
                   /\ target = IF log[k].val = Code1 THEN args.input2 ELSE args.input1
       /\ \A a, b \in Calls("set_vcp_feature") : a < b => log[a].d < log[b].d

\* a toggle that wrote the same target to several displays
C9_Witness ==
    /\ args.cmd = "toggle" /\ pc = "exit" /\ args.input1 # args.input2
    /\ Cardinality(Calls("set_vcp_feature")) >= 2
    /\ Cardinality(Calls("get_vcp_feature")) = 1

\* the displays the locate stage has pulled from the enumeration
Located ==
    IF pc = "locate" THEN 1..(idx - 1)
    ELSE IF Work # <<>> /\ LastWork.by = "displays" /\ ~LastWork.ok THEN 1..LastWork.d
    ELSE Displays

LocateCalls(d) == {k \in DOMAIN log : log[k].by = "displays" /\ log[k].d = d}

\* C10: the locate stage refreshes a display it pulls exactly when --model
\* was given and the display's backend is WinApi, once, and nothing else is
\* called there; until the loop starts the match list is the pulled
\* displays whose (refreshed) info matches every given flag, in enumeration
\* order and without duplicates; every call of the locate stage precedes
\* every call of the loop.
C10_LocateRefreshAndOrder ==
    /\ \A d \in Displays :
          Cardinality(LocateCalls(d)) =
             IF d \in Located /\ args.model # None /\ enumerated[d].backend = "WinApi"
             THEN 1 ELSE 0
    /\ \A k \in DOMAIN log : log[k].by = "displays" => log[k].op = "update_capabilities"
    /\ \A j, k \in DOMAIN log : j < k /\ log[k].by = "displays" => log[j].by = "displays"
    /\ \A j, k \in DOMAIN list : j < k => list[j] < list[k]
    /\ (\A k \in DOMAIN log : log[k].by = "displays") =>
          \A d \in Displays :
             d \in Range(list) <=>
                /\ d \in Located
                /\ LocateCalls(d) # {} => \A k \in LocateCalls(d) : log[k].ok
                /\ AllFlagsMatch(args, info[d])
    /\ \A d \in Range(list) : AllFlagsMatch(args, info[d])
    /\ Calls("set_vcp_feature") # {} => pc # "locate"

\* --model given: a WinApi display refreshed and matched, an I2C one not
\* refreshed, and writes issued afterwards
C10_Witness ==
    /\ args.model # None
    /\ \E d, e \in Displays :
          /\ enumerated[d].backend = "WinApi" /\ LocateCalls(d) # {} /\ d \in Range(list)
          /\ enumerated[e].backend # "WinApi" /\ LocateCalls(e) = {}
    /\ Calls("set_vcp_feature") # {}

====
